---- MODULE Spec2Model ----
(***************************************************************************)
(* A model of src/CPW.py: the class TL, which computes the per-length      *)
(* parameters of a coplanar waveguide.                                     *)
(*                                                                         *)
(* What is modelled exactly:                                               *)
(*   - the instance attributes (base and derived) and who writes them;     *)
(*   - the normalisation of the frequency argument (_variable_check);      *)
(*   - the regime dispatch of L_l, _Rc and _Rg: numpy masks, their         *)
(*     truth value, the order of the tests;                                *)
(*   - which exception a call ends with: ValueError from the truth value   *)
(*     of a mask with several elements, ZeroDivisionError from a division  *)
(*     of two plain Python floats by zero (a division with a numpy         *)
(*     operand yields inf/nan and a warning, never an exception);          *)
(*   - the call structure of the public operations.                        *)
(* What is symbolic: the numeric value of a formula.  A value is a term    *)
(* [form, par, env, sub]: the formula that produced it, its frequency or   *)
(* length parameter, the attribute values its call tree reads, and the     *)
(* values it combines.  Two terms are equal iff the same formula was       *)
(* evaluated on the same inputs.                                           *)
(*                                                                         *)
(* Numbers: the attributes are plain Python numbers (as the constructor's  *)
(* defaults are), sampled as small integers; halves and boundary           *)
(* frequencies are exact rationals <<numerator, denominator>>.  Units are  *)
(* chosen so that mu_0 = 1.  The irrational constants 2*pi and sqrt(2)     *)
(* are replaced by the rationals 44/7 and 7/5.                             *)
(***************************************************************************)
EXTENDS Integers, Sequences, FiniteSets, TLC

VARIABLES self, last

vars == <<self, last>>

(***************************************************************************)
(* Bounds and sample sets                                                  *)
(***************************************************************************)
\* longest frequency list / array / tuple passed to an operation
MaxLen == 2
\* frequencies are drawn from 0..MaxFreq
MaxFreq == 3
\* the resonator length
MaxL == 1
\* SpecOmega: widths and thickness are drawn from 1..MaxOmegaGeom
MaxOmegaGeom == 5
\* SpecOmega: conductivities are drawn from 1..MaxKappa
MaxKappa == 2

\* widths, gap and thickness given to the constructor or assigned by the
\* owner: zero (invalid) and two valid values
GeomVals == {0, 1, 2}
\* the valid ones
ValidGeomVals == {1, 2}
\* conductivity given to the constructor (with mu_0 = 1 it places the regime
\* boundaries among the sampled frequencies)
KappaVals == {4}
FreqVals == 0..MaxFreq
\* the lowest and the highest sampled frequency
ProbeVals == {0, MaxFreq}
\* the resonator length passed to the lambda/4 operations
LVals == {MaxL}

(***************************************************************************)
(* Program constants                                                       *)
(***************************************************************************)
\* scipy.constants.mu_0, in the model's units
mu_0 == 1
\* 2.*cst.pi ~ TwoPiNum / TwoPiDen
TwoPiNum == 44
TwoPiDen == 7
\* np.sqrt(2.) ~ Sqrt2Num / Sqrt2Den
Sqrt2Num == 7
Sqrt2Den == 5
\* constructor defaults: epsilon_r = 11.68 (hundredths), tan_delta = 7e-4
\* (1e-4), lambda_0 = 40e-9 (nm)
DefaultEpsilonR == 1168
DefaultTanDelta == 7
Lambda0 == 40
\* f = 9e9 in resonance_frequency_lambda4, in the model's frequency unit
ResonanceFreq == 9

(***************************************************************************)
(* Exact rationals <<n, d>>, d # 0                                         *)
(***************************************************************************)
Rat(n, d) == IF d < 0 THEN <<0 - n, 0 - d>> ELSE <<n, d>>
RInt(n) == <<n, 1>>
RAdd(x, y) == Rat(x[1] * y[2] + y[1] * x[2], x[2] * y[2])
RSub(x, y) == Rat(x[1] * y[2] - y[1] * x[2], x[2] * y[2])
RIsZero(x) == x[1] = 0
RLe(x, y) == x[1] * y[2] <= y[1] * x[2]
RLt(x, y) == x[1] * y[2] < y[1] * x[2]
REq(x, y) == x[1] * y[2] = y[1] * x[2]

(***************************************************************************)
(* TL.__init__ and the derived attributes                                  *)
(***************************************************************************)
\* faulty variant (mutation test of FreshDerived): a refresh that leaves
\* _t_H as it is
_defined_short_parameter_partial(st) ==
    [st EXCEPT !._a = Rat(st.w, 2),
               !._b = RAdd(Rat(st.w, 2), RInt(st.s))]

\* faulty variant (mutation test of CallsWriteDerivedOnly): a refresh that
\* stores w where w/2. belongs
_defined_short_parameter_whole(st) ==
    [st EXCEPT !._a = RInt(st.w),
               !._b = RAdd(Rat(st.w, 2), RInt(st.s)),
               !._t_H = Rat(st.t, 2)]

\* self._a = self.w/2. ; self._b = self.w/2. + self.s ; self._t_H = self.t/2.
_defined_short_parameter(st) ==
    [st EXCEPT !._a = Rat(st.w, 2),
               !._b = RAdd(Rat(st.w, 2), RInt(st.s)),
               !._t_H = Rat(st.t, 2)]

\* TL(epsilon_r, tan_delta, kappa, w, s, t, w_g): no argument is validated
__init__(epsilon_r, tan_delta, kappa, w, s, t, w_g) ==
    [epsilon_r |-> epsilon_r, tan_delta |-> tan_delta, kappa |-> kappa,
     w |-> w, s |-> s, t |-> t, w_g |-> w_g,
     _a |-> Rat(w, 2), _b |-> RAdd(Rat(w, 2), RInt(s)), _t_H |-> Rat(t, 2),
     lambda_0 |-> Lambda0]

BaseAttrs == {"epsilon_r", "tan_delta", "kappa", "w", "s", "t", "w_g", "lambda_0"}
DerivedAttrs == {"_a", "_b", "_t_H"}

\* the attribute values a formula's call tree reads
Proj(st, keys) == [k \in keys |-> st[k]]

(***************************************************************************)
(* Frequency arguments and numpy arrays                                    *)
(***************************************************************************)
\* a Python argument: a float, a list, a tuple or a one-dimensional ndarray
Scalar(f) == [kind |-> "scalar", shape |-> <<>>, flat |-> <<f>>]
List(fs) == [kind |-> "list", shape |-> <<Len(fs)>>, flat |-> fs]
Tuple(fs) == [kind |-> "tuple", shape |-> <<Len(fs)>>, flat |-> fs]
NdArray(fs) == [kind |-> "ndarray", shape |-> <<Len(fs)>>, flat |-> fs]
NoArg == [kind |-> "none", shape |-> <<>>, flat |-> <<>>]

\* isinstance(f, np.ndarray): f ; isinstance(f, list): np.array(f) ;
\* otherwise np.array([f]), which has shape (1,) for a float and (1, n) for
\* a tuple of n floats
_variable_check(f) ==
    IF f.kind = "ndarray" THEN f
    ELSE IF f.kind = "list" THEN [kind |-> "ndarray", shape |-> f.shape, flat |-> f.flat]
    ELSE [kind |-> "ndarray", shape |-> <<1>> \o f.shape, flat |-> f.flat]

\* len(array): the first dimension
ArrLen(arr) == arr.shape[1]
\* array.size
ArrSize(arr) == Len(arr.flat)

\* 2.*cst.pi*f
_omega(f) == Rat(TwoPiNum * f, TwoPiDen)

(***************************************************************************)
(* ZeroDivisionError.  X_div(st) holds when the body of helper X itself    *)
(* divides a plain float by a plain float that is zero.  Divisions with a  *)
(* numpy operand (the results of np.log, np.sqrt, np.arctan, ellipk,       *)
(* ellipe) never raise.  Calls are followed through Callees.               *)
(***************************************************************************)
\* self.w / (self.w + 2.*self.s)
_k0_div(st) == st.w + 2 * st.s = 0

\* (w+2s)/(w+2s+2w_g), w/(w+2s+2w_g) and (1. - ..**2)/(1 - ..**2)
_k1_div(st) ==
    LET D == st.w + 2 * st.s + 2 * st.w_g
    IN D = 0 \/ st.w * st.w = D * D

\* (w+2s)/(4w+2s), w/(4w+2s) and (1 - ..**2)/(1 - ..**2)
_k2_div(st) ==
    LET E == 4 * st.w + 2 * st.s
    IN E = 0 \/ st.w * st.w = E * E

\* faulty variant (mutation test of ZeroWidthRaises): every division of _g
\* taken as a numpy division
_g_div_numpy(st) == FALSE

\* -np.log(t/(4.*w)) - (w/(w + 2.*s))*np.log(t/(4.*(w + 2.*s)))
\*   + ((2.*(w+s))/(w + 2.*s))*np.log(s/(w+s)); the leading
\* 1./(2*k0**2*ellipk(k0)**2) has a numpy denominator
_g_div(st) == st.w = 0 \/ st.w + 2 * st.s = 0 \/ st.w + st.s = 0

\* (8.*np.pi*_a)/(_a + _b) and _b/_a
_pc1_div(st) == RIsZero(RAdd(st._a, st._b)) \/ RIsZero(st._a)

\* (_b-_a)/(_b+_a), (8.*np.pi*_a)/(_a + _b) and _a/_b
_pc4_div(st) == RIsZero(RAdd(st._a, st._b)) \/ RIsZero(st._b)

\* (_b-_a)/(_b+_a)
_pc5_div(st) == RIsZero(RAdd(st._a, st._b))

\* (_b-_a)/(_b+_a), (24.*np.pi*_b*(_a+_b))/((_b-_a)**2) and _b/_a
_pc6_div(st) ==
    \/ RIsZero(RAdd(st._a, st._b))
    \/ RIsZero(RSub(st._b, st._a))
    \/ RIsZero(st._a)

\* x/self.t, x**4/(12*self.t**2) and self.t/x ; x2 is twice x, so that
\* the width (3.*self.w)/2. stays an integer
_g_L_div(st, x2) == st.t = 0 \/ x2 = 0

\* 1./w_2**2, 4./(w_1*w_2) and the calls of _g_L ; w_1 and w_2 are
\* twice the widths passed
_L_DC_div(st, w_1, w_2) ==
    LET s1 == 2 * st.s
        s2 == 4 * st.s
    IN \/ w_2 = 0
       \/ w_1 = 0
       \/ _g_L_div(st, w_1)
       \/ _g_L_div(st, w_1 + s2)
       \/ _g_L_div(st, w_1 + 2 * w_2 + s2)
       \/ _g_L_div(st, w_2)
       \/ _g_L_div(st, w_1 + w_2 + s2)
       \/ _g_L_div(st, w_1 + w_2 + s1)
       \/ _g_L_div(st, w_1 + s1)
       \/ _g_L_div(st, s1)
       \/ _g_L_div(st, w_2 + s1)

\* the two uses: _L_DC(self.w, self.w_g) and _L_DC(self.w, (3.*self.w)/2.)
_L_DC_wg_div(st) == _L_DC_div(st, 2 * st.w, 2 * st.w_g)
_L_DC_32_div(st) == _L_DC_div(st, 2 * st.w, 3 * st.w)

\* cst.mu_0/(2*self._omega_L2()*self.kappa)
_L_2_div(st) == st.kappa = 0

\* if self._t_H <= self.s/2.
ThinBranch(st) == RLe(st._t_H, Rat(st.s, 2))

\* thin: (8 pi a)/(a+b), (b-a)/(b+a), (2 t_H)/s, b/a, (b(b-a))/(a(b+a)),
\*   (t_H/s)**2, and the call of _pc5
\* thick: 1./(2.*s), t_H/s**2, (pi b)/(a+b), (2(a**2+b**2))/(a(a+b)), and
\*   the call of _pc6
_F_lc_div(st) ==
    IF ThinBranch(st)
    THEN \/ RIsZero(RAdd(st._a, st._b))
         \/ st.s = 0
         \/ RIsZero(st._a)
         \/ _pc5_div(st)
    ELSE \/ st.s = 0
         \/ RIsZero(RAdd(st._a, st._b))
         \/ RIsZero(st._a)
         \/ _pc6_div(st)

\* thin: (8 pi b)/(b-a), (b-a)/(b+a), (2 t_H)/s, a/b, (t_H/s)**2, and the
\*   call of _pc5
\* thick: 1./(2.*s), t_H/s**2, (pi a)/(a+b), (2(a**2+b**2))/(b(a+b)), and
\*   the call of _pc6
_F_lg_div(st) ==
    IF ThinBranch(st)
    THEN \/ RIsZero(RSub(st._b, st._a))
         \/ RIsZero(RAdd(st._a, st._b))
         \/ st.s = 0
         \/ RIsZero(st._b)
         \/ _pc5_div(st)
    ELSE \/ st.s = 0
         \/ RIsZero(RAdd(st._a, st._b))
         \/ RIsZero(st._b)
         \/ _pc6_div(st)

\* both branches of _F_up(t) divide by self.s: t/self.s, (2.*t)/self.s
_F_up_div(st) == st.s = 0

\* 4./(cst.mu_0*self.kappa*self.t*self.w_g)
_omega_L0_div(st) == mu_0 * st.kappa * st.t * st.w_g = 0
\* 4./(cst.mu_0*self.kappa*self.t*self.w)
_omega_L1_div(st) == mu_0 * st.kappa * st.t * st.w = 0
\* 18./(cst.mu_0*self.kappa*self.t**2)
_omega_L2_div(st) == mu_0 * st.kappa * st.t * st.t = 0

\* (self.w/self.w_g)**4 and (self.w/self.w_g)**2
_eta_1_div(st) == st.w_g = 0
_eta_2_div(st) == st.w_g = 0
\* ((2.*self.t)/(9*self.w))**3 and (2.*self.t)/(9*self.w)
_eta_3_div(st) == 9 * st.w = 0
_eta_4_div(st) == 9 * st.w = 0

\* -(9./2.)*(self.w/self.t)*(..)
_a_4L_div(st) == st.t = 0
\* ((2.*self.t)/(9.*self.w))**2
_a_5L_div(st) == 9 * st.w = 0
\* (self.w/self.w_g)**2 ; L_inf/L_DC is a numpy division
_a_0L_div(st) == st.w_g = 0

\* np.sqrt(2.)*(4./(cst.mu_0*self.kappa*self.t*self.w))
_omega_c1_div(st) == mu_0 * st.kappa * st.t * st.w = 0
\* (8./(cst.mu_0*self.kappa))*((self.w + self.t)/(self.w*self.t))**2.
_omega_c2_div(st) == mu_0 * st.kappa = 0 \/ st.w * st.t = 0
\* 2./(cst.mu_0*self.kappa*self.t*self.w_g)
_omega_g1_div(st) == mu_0 * st.kappa * st.t * st.w_g = 0
\* (2./(cst.mu_0*self.kappa))*((2*self.w_g + self.t)/(self.w_g*self.t))**2.
_omega_g2_div(st) == mu_0 * st.kappa = 0 \/ st.w_g * st.t = 0

\* (omega_g1/omega_g2)**2: two plain floats, omega_g2 = 0 iff 2 w_g + t = 0
_gamma_g_div(st) == 2 * st.w_g + st.t = 0

\* 1./(self.kappa*self.w*self.t)
_R_c0_div(st) == st.kappa * st.w * st.t = 0
\* (omega_c2 * cst.mu_0)/(2.*self.kappa)
_R_c1_div(st) == 2 * st.kappa = 0
\* 1./(2.*self.kappa*self.w_g*self.t)
_R_g0_div(st) == 2 * st.kappa * st.w_g * st.t = 0
\* (omega_g2 * cst.mu_0)/(2.*self.kappa)
_R_g1_div(st) == 2 * st.kappa = 0

\* np.log(R_g0/R_g1)/np.log(omega_g1/omega_g2): omega_g1/omega_g2 divides
\* two plain floats
_nu_g_div(st) == 2 * st.w_g + st.t = 0

(***************************************************************************)
(* The call graph.  Callees[h]: the helpers the body of h calls (a call    *)
(* made in one branch only, _pc5 or _pc6 from _F_lc and _F_lg, is part of  *)
(* the caller's branch above).  The names L_l_1 .. L_l_4, _Rc_1 .. _Rc_3   *)
(* and _Rg_1 .. _Rg_3 are the return expressions of the regime branches.   *)
(***************************************************************************)
Callees ==
    [_k0 |-> {}, _k1 |-> {"_k0"}, _k2 |-> {"_k0"},
     _g |-> {"_k0"}, L_k |-> {"_g"},
     _pc0 |-> {"_k0"}, _pc1 |-> {}, _pc2 |-> {"_pc1", "_k0"}, _pc3 |-> {"_k0"},
     _pc4 |-> {}, _pc5 |-> {}, _pc6 |-> {},
     _L_DC_wg |-> {}, _L_DC_32 |-> {},
     _L_1 |-> {"_L_DC_32", "_F1"},
     _L_2 |-> {"_omega_L2", "_F_lc", "_F_lg", "_F_up"},
     _L_inf |-> {"_F_up"},
     _F_lc |-> {"_pc0", "_pc1", "_pc2", "_pc3", "_pc4"},
     _F_lg |-> {"_pc0", "_pc1", "_pc2", "_pc3", "_pc4"},
     _F1 |-> {"_F_up", "_k2", "_k1"},
     _F_up |-> {"_k1", "_pc0", "_pc1", "_pc2"},
     _F_low |-> {"_k1"},
     _omega_L0 |-> {}, _omega_L1 |-> {}, _omega_L2 |-> {},
     _nu_1 |-> {"_L_DC_wg", "_L_inf", "_L_1", "_omega_L0", "_omega_L1"},
     _nu_2 |-> {"_L_1", "_L_2", "_omega_L1", "_omega_L2"},
     _eta_1 |-> {"_nu_1"}, _eta_2 |-> {"_nu_1"},
     _eta_3 |-> {"_nu_2"}, _eta_4 |-> {"_nu_2"},
     _a_3L |-> {"_nu_1", "_nu_2", "_eta_1", "_eta_2", "_eta_3", "_eta_4"},
     _a_2L |-> {"_eta_1", "_a_3L", "_eta_3", "_eta_2", "_eta_4"},
     _a_4L |-> {"_eta_4", "_a_3L", "_eta_3"},
     _a_5L |-> {"_a_3L", "_a_4L"},
     _a_1L |-> {"_nu_1", "_eta_2", "_a_2L"},
     _a_0L |-> {"_L_inf", "_L_DC_wg", "_a_1L", "_a_2L"},
     _omega_c1 |-> {}, _omega_c2 |-> {}, _omega_g1 |-> {}, _omega_g2 |-> {},
     _gamma_c |-> {"_omega_c1", "_omega_c2"},
     _gamma_g |-> {"_omega_g1", "_omega_g2"},
     _R_c0 |-> {}, _R_c1 |-> {"_omega_c2", "_F_lc", "_F_up"},
     _R_g0 |-> {}, _R_g1 |-> {"_omega_g2", "_F_lg", "_F_up"},
     _nu_c |-> {"_R_c0", "_R_c1", "_omega_c1", "_omega_c2"},
     _nu_g |-> {"_R_g0", "_R_g1", "_omega_g1", "_omega_g2"},
     _a_4c |-> {"_gamma_c", "_nu_c"}, _a_3c |-> {"_nu_c", "_a_4c"},
     _a_2c |-> {"_gamma_c", "_a_4c", "_a_3c"},
     _a_1c |-> {"_a_2c", "_gamma_c", "_a_3c"},
     _a_4g |-> {"_gamma_g", "_nu_g"}, _a_3g |-> {"_nu_g", "_a_4g"},
     _a_2g |-> {"_gamma_g", "_a_4g", "_a_3g"},
     _a_1g |-> {"_a_2g", "_gamma_g", "_a_3g"},
     _Rc_1 |-> {"_R_c0", "_a_1c", "_omega_c1"},
     _Rc_2 |-> {"_R_c1", "_omega_c2", "_nu_c", "_a_2c", "_omega_c1", "_a_3c"},
     _Rc_3 |-> {"_F_lc", "_F_up", "_a_4c", "_omega_c2"},
     _Rg_1 |-> {"_R_g0", "_a_1g", "_omega_g1"},
     _Rg_2 |-> {"_R_g1", "_omega_g2", "_nu_g", "_a_2g", "_omega_g1", "_a_3g"},
     _Rg_3 |-> {"_F_lg", "_F_up", "_a_4g", "_omega_g2"},
     L_l_1 |-> {"_L_DC_wg", "_a_0L", "_omega_L0"},
     L_l_2 |-> {"_L_inf", "_L_1", "_omega_L1", "_nu_1", "_a_1L", "_omega_L0", "_a_2L"},
     L_l_3 |-> {"_L_inf", "_L_2", "_omega_L2", "_nu_2", "_a_3L", "_omega_L1", "_a_4L"},
     L_l_4 |-> {"_L_inf", "_F_lc", "_F_lg", "_F_up", "_a_5L", "_omega_L2"},
     C_l |-> {"_F_up", "_F_low"},
     G_l |-> {"_F_low"}]

\* the own divisions of every helper, in the state st.  FALSE: every
\* division of the helper has a numpy operand (the value of np.log, np.sqrt,
\* np.arctan, ellipk or ellipe, or of a helper that returns one), or a
\* plain divisor that cannot be zero (omega_L1 = 4./(..) in _nu_1 and
\* _nu_2, gamma_g in _a_2g)
OwnDiv(st) ==
    [_k0 |-> _k0_div(st), _k1 |-> _k1_div(st), _k2 |-> _k2_div(st),
     _g |-> _g_div(st), L_k |-> FALSE,
     _pc0 |-> FALSE, _pc1 |-> _pc1_div(st), _pc2 |-> FALSE,
     _pc3 |-> FALSE, _pc4 |-> _pc4_div(st), _pc5 |-> _pc5_div(st),
     _pc6 |-> _pc6_div(st),
     _L_DC_wg |-> _L_DC_wg_div(st), _L_DC_32 |-> _L_DC_32_div(st),
     _L_1 |-> FALSE, _L_2 |-> _L_2_div(st), _L_inf |-> FALSE,
     _F_lc |-> _F_lc_div(st), _F_lg |-> _F_lg_div(st), _F1 |-> FALSE,
     _F_up |-> _F_up_div(st), _F_low |-> FALSE,
     _omega_L0 |-> _omega_L0_div(st), _omega_L1 |-> _omega_L1_div(st),
     _omega_L2 |-> _omega_L2_div(st),
     _nu_1 |-> FALSE, _nu_2 |-> FALSE,
     _eta_1 |-> _eta_1_div(st), _eta_2 |-> _eta_2_div(st),
     _eta_3 |-> _eta_3_div(st), _eta_4 |-> _eta_4_div(st),
     _a_3L |-> FALSE, _a_2L |-> FALSE, _a_4L |-> _a_4L_div(st),
     _a_5L |-> _a_5L_div(st), _a_1L |-> FALSE, _a_0L |-> _a_0L_div(st),
     _omega_c1 |-> _omega_c1_div(st), _omega_c2 |-> _omega_c2_div(st),
     _omega_g1 |-> _omega_g1_div(st), _omega_g2 |-> _omega_g2_div(st),
     _gamma_c |-> FALSE, _gamma_g |-> _gamma_g_div(st),
     _R_c0 |-> _R_c0_div(st), _R_c1 |-> _R_c1_div(st),
     _R_g0 |-> _R_g0_div(st), _R_g1 |-> _R_g1_div(st),
     _nu_c |-> FALSE, _nu_g |-> _nu_g_div(st),
     _a_4c |-> FALSE, _a_3c |-> FALSE,
     _a_2c |-> FALSE, _a_1c |-> FALSE,
     _a_4g |-> FALSE, _a_3g |-> FALSE,
     _a_2g |-> FALSE, _a_1g |-> FALSE,
     _Rc_1 |-> FALSE, _Rc_2 |-> FALSE, _Rc_3 |-> FALSE,
     _Rg_1 |-> FALSE, _Rg_2 |-> FALSE, _Rg_3 |-> FALSE,
     L_l_1 |-> FALSE, L_l_2 |-> FALSE, L_l_3 |-> FALSE, L_l_4 |-> FALSE,
     C_l |-> FALSE, G_l |-> FALSE]

\* the helpers a call of one of S runs, directly or not
RECURSIVE CallTree(_)
CallTree(S) ==
    LET N == S \cup UNION {Callees[h] : h \in S}
    IN IF N = S THEN S ELSE CallTree(N)

Reach == [h \in DOMAIN Callees |-> CallTree({h})]

\* evaluating h in the state st ends with ZeroDivisionError
Raises(h, st) ==
    LET d == OwnDiv(st)
    IN \E g \in Reach[h] : d[g]

(***************************************************************************)
(* Values                                                                  *)
(***************************************************************************)
\* the symbolic value of one evaluation of a formula
Term(form, par, env, sub) == [form |-> form, par |-> par, env |-> env, sub |-> sub]

\* how a call ends: it returns an array (shape, elements in C order; shape
\* <<>> is a scalar) or it raises
Return(shape, flat) == [tag |-> "return", exc |-> "", shape |-> shape, flat |-> flat]
Raise(exc) == [tag |-> "raise", exc |-> exc, shape |-> <<>>, flat |-> <<>>]
NoOut == [tag |-> "none", exc |-> "", shape |-> <<>>, flat |-> <<>>]

\* the result of a method call: the instance afterwards, how the call
\* ended, and the derived attributes (_a, _b, _t_H) its formulas were given
Result(st, out, seen) == [st |-> st, out |-> out, seen |-> seen]

\* attributes read by the call trees of the formulas
LkReads == {"w", "s", "t", "lambda_0"}
LlReads == {"w", "s", "t", "w_g", "kappa", "_a", "_b", "_t_H"}
RReads == {"w", "s", "t", "w_g", "kappa", "_a", "_b", "_t_H"}
ClReads == {"w", "s", "t", "w_g", "epsilon_r", "_a", "_b"}
GlReads == {"w", "s", "w_g", "epsilon_r", "tan_delta"}

\* element i of x broadcast against an array of the size of the frequencies
Pick(x, i) == IF Len(x.flat) = 1 THEN x.flat[1] ELSE x.flat[i]

(***************************************************************************)
(* Regime boundaries (called only where their division does not raise)     *)
(***************************************************************************)
\* faulty variant (mutation test of BoundariesOrderedIff): the first
\* boundary computed from w instead of w_g
_omega_L0_w(st) == Rat(4, mu_0 * st.kappa * st.t * st.w)

_omega_L0(st) == Rat(4, mu_0 * st.kappa * st.t * st.w_g)
_omega_L1(st) == Rat(4, mu_0 * st.kappa * st.t * st.w)
_omega_L2(st) == Rat(18, mu_0 * st.kappa * st.t * st.t)
_omega_c1(st) == Rat(Sqrt2Num * 4, Sqrt2Den * mu_0 * st.kappa * st.t * st.w)
_omega_c2(st) ==
    Rat(8 * (st.w + st.t) * (st.w + st.t),
        mu_0 * st.kappa * (st.w * st.t) * (st.w * st.t))
_omega_g1(st) == Rat(2, mu_0 * st.kappa * st.t * st.w_g)
_omega_g2(st) ==
    Rat(2 * (2 * st.w_g + st.t) * (2 * st.w_g + st.t),
        mu_0 * st.kappa * (st.w_g * st.t) * (st.w_g * st.t))

(***************************************************************************)
(* numpy masks                                                             *)
(***************************************************************************)
\* np.ma.masked_less_equal(f, value).mask: nomask (np.False_) when no
\* element is masked, else one boolean per element
masked_less_equal(arr, value) ==
    LET bits == [i \in 1..Len(arr.flat) |-> RLe(RInt(arr.flat[i]), value)]
    IN IF \E i \in 1..Len(arr.flat) : bits[i]
       THEN [nomask |-> FALSE, bits |-> bits]
       ELSE [nomask |-> TRUE, bits |-> <<>>]

\* faulty variant (mutation test of MultiElementLastOrValueError): the
\* truth value of a mask taken as mask.any()
Truth_any(mask) ==
    IF mask.nomask THEN "False"
    ELSE IF \E i \in 1..Len(mask.bits) : mask.bits[i] THEN "True" ELSE "False"

\* bool(mask), as `if mask:` takes it: an array with more than one element
\* has no truth value
Truth(mask) ==
    IF mask.nomask THEN "False"
    ELSE IF Len(mask.bits) > 1 THEN "ValueError"
    ELSE IF mask.bits[1] THEN "True" ELSE "False"

\* return <formula>: one value per element of f, or ZeroDivisionError
Formula(form, st, arr, reads) ==
    IF Raises(form, st)
    THEN Raise("ZeroDivisionError")
    ELSE Return(arr.shape,
                [i \in 1..Len(arr.flat) |->
                    Term(form, <<arr.flat[i]>>, Proj(st, reads), <<>>)])

(***************************************************************************)
(* _Rc, _Rg                                                                *)
(***************************************************************************)
\* if c1: first ; elif [~c1] and c2: second ; elif [~c2]: third.
\* [~c1] and [~c2] are non-empty lists, hence true.
Dispatch3(st, arr, b1, b2, f1, f2, f3, reads) ==
    LET c1 == Truth(masked_less_equal(arr, b1))
        c2 == Truth(masked_less_equal(arr, b2))
    IN IF c1 = "ValueError" THEN Raise("ValueError")
       ELSE IF c1 = "True" THEN Formula(f1, st, arr, reads)
       ELSE IF c2 = "ValueError" THEN Raise("ValueError")
       ELSE IF c2 = "True" THEN Formula(f2, st, arr, reads)
       ELSE Formula(f3, st, arr, reads)

_Rc(st, arr) ==
    IF _omega_c1_div(st) \/ _omega_c2_div(st)
    THEN Raise("ZeroDivisionError")
    ELSE Dispatch3(st, arr, _omega_c1(st), _omega_c2(st),
                   "_Rc_1", "_Rc_2", "_Rc_3", RReads)

_Rg(st, arr) ==
    IF _omega_g1_div(st) \/ _omega_g2_div(st)
    THEN Raise("ZeroDivisionError")
    ELSE Dispatch3(st, arr, _omega_g1(st), _omega_g2(st),
                   "_Rg_1", "_Rg_2", "_Rg_3", RReads)

(***************************************************************************)
(* The public operations, as functions of the instance and the arguments   *)
(***************************************************************************)
Derived(st) == Proj(st, DerivedAttrs)

\* L_k(): no refresh of the derived attributes, and no read of them
L_k_call(st) ==
    Result(st,
           IF Raises("L_k", st)
           THEN Raise("ZeroDivisionError")
           ELSE Return(<<>>, <<Term("L_k", <<>>, Proj(st, LkReads), <<>>)>>),
           {})

\* if c1: first ; elif [~c1] and c2: second ; elif [~c2] and c3: third ;
\* elif [~c2]: fourth
Dispatch4(st, arr, b1, b2, b3) ==
    LET c1 == Truth(masked_less_equal(arr, b1))
        c2 == Truth(masked_less_equal(arr, b2))
        c3 == Truth(masked_less_equal(arr, b3))
    IN IF c1 = "ValueError" THEN Raise("ValueError")
       ELSE IF c1 = "True" THEN Formula("L_l_1", st, arr, LlReads)
       ELSE IF c2 = "ValueError" THEN Raise("ValueError")
       ELSE IF c2 = "True" THEN Formula("L_l_2", st, arr, LlReads)
       ELSE IF c3 = "ValueError" THEN Raise("ValueError")
       ELSE IF c3 = "True" THEN Formula("L_l_3", st, arr, LlReads)
       ELSE Formula("L_l_4", st, arr, LlReads)

\* the body of L_l after the refresh
L_l_body(st, f) ==
    LET arr == _variable_check(f)
    IN IF _omega_L0_div(st) \/ _omega_L1_div(st) \/ _omega_L2_div(st)
       THEN Result(st, Raise("ZeroDivisionError"), {})
       ELSE Result(st,
                   Dispatch4(st, arr, _omega_L0(st), _omega_L1(st), _omega_L2(st)),
                   {Derived(st)})

\* faulty variant (mutation test of LlRepeatable): the refresh made after
\* the formulas instead of before
L_l_call_late(st, f) ==
    LET r == L_l_body(st, f)
    IN Result(_defined_short_parameter(r.st), r.out, r.seen)

L_l_call(st, f) == L_l_body(_defined_short_parameter(st), f)

\* self._Rc(f) + self._Rg(f), given how the two calls ended
R_l_sum(st, arr, c0, g0) ==
    LET c == c0
        g == g0
    IN IF c.tag = "raise" THEN Result(st, c, {Derived(st)})
       ELSE IF g.tag = "raise" THEN Result(st, g, {Derived(st)})
       ELSE Result(st,
                   Return(arr.shape,
                          [i \in 1..Len(arr.flat) |->
                              Term("R_l", <<>>, <<>>, <<c.flat[i], g.flat[i]>>)]),
                   {Derived(st)})

\* the body of R_l after the refresh
R_l_body(st, f) ==
    R_l_sum(st, _variable_check(f),
            _Rc(st, _variable_check(f)), _Rg(st, _variable_check(f)))

R_l_call(st, f) == R_l_body(_defined_short_parameter(st), f)

\* faulty variant (mutation test of ClFrequencyIndependent): a C_l whose
\* elements are computed from the frequencies, as those of G_l are
C_l_body_freq(st, f) ==
    LET arr == _variable_check(f)
    IN IF Raises("C_l", st)
       THEN Result(st, Raise("ZeroDivisionError"), {Derived(st)})
       ELSE Result(st,
                   Return(<<ArrLen(arr)>>,
                          [i \in 1..ArrLen(arr) |->
                              Term("C_l", <<arr.flat[i]>>, Proj(st, ClReads), <<>>)]),
                   {Derived(st)})

\* np.array([2.*eps_0*(F_up(t) + eps_r*F_low())]*len(f))
C_l_body(st, f) ==
    LET arr == _variable_check(f)
    IN IF Raises("C_l", st)
       THEN Result(st, Raise("ZeroDivisionError"), {Derived(st)})
       ELSE Result(st,
                   Return(<<ArrLen(arr)>>,
                          [i \in 1..ArrLen(arr) |->
                              Term("C_l", <<>>, Proj(st, ClReads), <<>>)]),
                   {Derived(st)})

C_l_call(st, f) == C_l_body(_defined_short_parameter(st), f)

\* 2.*omega(f)*eps_0*eps_r*tan_delta*F_low(): reads no derived attribute
G_l_body(st, f) ==
    LET arr == _variable_check(f)
    IN IF Raises("G_l", st)
       THEN Result(st, Raise("ZeroDivisionError"), {})
       ELSE Result(st,
                   Return(arr.shape,
                          [i \in 1..Len(arr.flat) |->
                              Term("G_l", <<arr.flat[i]>>, Proj(st, GlReads), <<>>)]),
                   {})

G_l_call(st, f) == G_l_body(_defined_short_parameter(st), f)

(***************************************************************************)
(* Operations built from other operations.  The operands are evaluated in  *)
(* the order of the source expression; the first exception ends the call.  *)
(* The only write of L_l, R_l, C_l and G_l is their refresh of the derived *)
(* attributes, so the instance after one of them is Refreshed(st).         *)
(***************************************************************************)
Refreshed(st) == _defined_short_parameter(st)

\* an elementwise expression over one array
Map1(form, par, x0) ==
    LET x == x0
    IN
    IF x.out.tag = "raise" THEN x
    ELSE Result(x.st,
                Return(x.out.shape,
                       [i \in 1..Len(x.out.flat) |->
                           Term(form, par, <<>>, <<x.out.flat[i]>>)]),
                x.seen)

\* an elementwise expression over two arrays, of the shape of the larger one
Map2(form, par, x0, y0) ==
    LET x == x0
        y == y0
    IN
    IF x.out.tag = "raise" THEN x
    ELSE IF y.out.tag = "raise" THEN Result(y.st, y.out, x.seen \cup y.seen)
    ELSE LET big == IF Len(x.out.flat) >= Len(y.out.flat) THEN x.out ELSE y.out
         IN Result(y.st,
                   Return(big.shape,
                          [i \in 1..Len(big.flat) |->
                              Term(form, par, <<>>, <<Pick(x.out, i), Pick(y.out, i)>>)]),
                   x.seen \cup y.seen)

\* (R_l(f) + 1j*omega(f)*L_l(f)) combined with (G_l(f) + 1j*omega(f)*C_l(f)),
\* given how the four calls ended
Combine(form, arr, r0, l0, g0, c0) ==
    LET r == r0
        l == l0
        g == g0
        c == c0
    IN IF r.out.tag = "raise" THEN r
       ELSE IF l.out.tag = "raise" THEN Result(l.st, l.out, r.seen \cup l.seen)
       ELSE IF g.out.tag = "raise"
            THEN Result(g.st, g.out, r.seen \cup l.seen \cup g.seen)
       ELSE IF c.out.tag = "raise"
            THEN Result(c.st, c.out, r.seen \cup l.seen \cup g.seen \cup c.seen)
       ELSE Result(c.st,
                   Return(arr.shape,
                          [i \in 1..Len(arr.flat) |->
                              Term(form, <<arr.flat[i]>>, <<>>,
                                   <<Pick(r.out, i), Pick(l.out, i),
                                     Pick(g.out, i), Pick(c.out, i)>>)]),
                   r.seen \cup l.seen \cup g.seen \cup c.seen)

\* the refresh of the caller, then R_l(f), L_l(f), G_l(f) and C_l(f)
Telegrapher(form, st0, f) ==
    Combine(form, _variable_check(f),
            R_l_call(Refreshed(st0), _variable_check(f)),
            L_l_call(Refreshed(Refreshed(st0)), _variable_check(f)),
            G_l_call(Refreshed(Refreshed(Refreshed(st0))), _variable_check(f)),
            C_l_call(Refreshed(Refreshed(Refreshed(Refreshed(st0)))),
                     _variable_check(f)))

Z_0_call(st, f) == Telegrapher("Z_0", st, f)
gamma_call(st, f) == Telegrapher("gamma", st, f)

\* self.gamma(f).real and self.gamma(f).imag
alpha_call(st, f) == Map1("alpha", <<>>, gamma_call(st, f))
beta_call(st, f) == Map1("beta", <<>>, gamma_call(st, f))

\* 1./np.sqrt(self.C_l(f) * self.L_l(f))/cst.c
velocity_call(st, f) ==
    Map2("velocity", <<>>,
         C_l_call(Refreshed(st), _variable_check(f)),
         L_l_call(Refreshed(Refreshed(st)), _variable_check(f)))

\* 8.*l*self.L_l(f)/cst.pi**2.
L_eq_lambda4_call(st, f, l) == Map1("L_eq_lambda4", <<l>>, L_l_call(st, f))
\* l*self.C_l(f)/2.
C_eq_lambda4_call(st, f, l) == Map1("C_eq_lambda4", <<l>>, C_l_call(st, f))
\* self.Z_0(f)/self.alpha(f)/l
R_eq_lambda4_call(st, f, l) ==
    Map2("R_eq_lambda4", <<l>>, Z_0_call(st, f), alpha_call(Refreshed(st), f))
\* cst.pi/(4.*self.alpha(f)*l)
Q_lambda4_call(st, f, l) == Map1("Q_lambda4", <<l>>, alpha_call(st, f))
\* f = 9e9 ; 1./(2.*cst.pi*np.sqrt(L_eq_lambda4(f, l) * C_eq_lambda4(f, l)))
resonance_frequency_lambda4_call(st, l) ==
    Map2("resonance_frequency_lambda4", <<>>,
         L_eq_lambda4_call(st, Scalar(ResonanceFreq), l),
         C_eq_lambda4_call(Refreshed(st), Scalar(ResonanceFreq), l))

(***************************************************************************)
(* Arguments the owner passes                                              *)
(***************************************************************************)
\* the sequences over V of length lo..hi
SeqsOver(V, lo, hi) == UNION {[1..n -> V] : n \in lo..hi}

\* a float, a list, an array or a (non-empty) tuple of frequencies from V
ArgsOver(V) ==
    {Scalar(f) : f \in V}
        \cup {List(fs) : fs \in SeqsOver(V, 0, MaxLen)}
        \cup {NdArray(fs) : fs \in SeqsOver(V, 0, MaxLen)}
        \cup {Tuple(fs) : fs \in SeqsOver(V, 1, MaxLen)}

\* one argument of each kind, of the greatest length: what the operations
\* built from L_l, R_l, C_l and G_l are called with
ArgsOfEachKind(V) ==
    {Scalar(f) : f \in V}
        \cup {List(fs) : fs \in SeqsOver(V, MaxLen, MaxLen)}
        \cup {NdArray(fs) : fs \in SeqsOver(V, MaxLen, MaxLen)}
        \cup {Tuple(fs) : fs \in SeqsOver(V, MaxLen, MaxLen)}

(***************************************************************************)
(* Actions: one per public operation, and the owner's assignments          *)
(***************************************************************************)
\* `last` is the owner's view of the call that has just ended: the
\* operation, its arguments, how it ended, and the derived attributes the
\* instance had when the call was made.  Between calls it is Idle.
NoDerived == [_a |-> <<0, 1>>, _b |-> <<0, 1>>, _t_H |-> <<0, 1>>]

Idle ==
    [op |-> "idle", arg |-> NoArg, l |-> 0, out |-> NoOut, seen |-> {},
     entry |-> NoDerived]

Called(op, arg, l, r) ==
    [op |-> op, arg |-> arg, l |-> l, out |-> r.out, seen |-> r.seen,
     entry |-> Derived(self)]

\* the owner calls an operation; the whole call is one step
Call(op, arg, l, r0) ==
    LET r == r0
    IN /\ last = Idle
       /\ self' = r.st
       /\ last' = Called(op, arg, l, r)

\* the owner has the result (or has caught the exception) and goes on
Continue ==
    /\ last # Idle
    /\ last' = Idle
    /\ UNCHANGED self

L_k == Call("L_k", NoArg, 0, L_k_call(self))
L_l(f) == Call("L_l", f, 0, L_l_call(self, f))
R_l(f) == Call("R_l", f, 0, R_l_call(self, f))
C_l(f) == Call("C_l", f, 0, C_l_call(self, f))
G_l(f) == Call("G_l", f, 0, G_l_call(self, f))
Z_0(f) == Call("Z_0", f, 0, Z_0_call(self, f))
gamma(f) == Call("gamma", f, 0, gamma_call(self, f))
alpha(f) == Call("alpha", f, 0, alpha_call(self, f))
beta(f) == Call("beta", f, 0, beta_call(self, f))
velocity(f) == Call("velocity", f, 0, velocity_call(self, f))
L_eq_lambda4(f, l) == Call("L_eq_lambda4", f, l, L_eq_lambda4_call(self, f, l))
C_eq_lambda4(f, l) == Call("C_eq_lambda4", f, l, C_eq_lambda4_call(self, f, l))
R_eq_lambda4(f, l) == Call("R_eq_lambda4", f, l, R_eq_lambda4_call(self, f, l))
Q_lambda4(f, l) == Call("Q_lambda4", f, l, Q_lambda4_call(self, f, l))
resonance_frequency_lambda4(l) ==
    Call("resonance_frequency_lambda4", NoArg, l,
         resonance_frequency_lambda4_call(self, l))

\* the owner assigns a base attribute: tl.w = v (nothing is validated and
\* the derived attributes are left as they are)
SetAttr(name, v) ==
    /\ last = Idle
    /\ self' = [self EXCEPT ![name] = v]
    /\ UNCHANGED last

Set_w(v) == SetAttr("w", v)
Set_s(v) == SetAttr("s", v)
Set_t(v) == SetAttr("t", v)
Set_w_g(v) == SetAttr("w_g", v)

\* tl = TL(epsilon_r, tan_delta, kappa, w, s, t, w_g)
Constructed(G, K) ==
    /\ self \in {__init__(DefaultEpsilonR, DefaultTanDelta, k, w, s, t, w_g) :
                    k \in K, w \in G, s \in G, t \in G, w_g \in G}
    /\ last = Idle

Assign(G) ==
    \E v \in G : Set_w(v) \/ Set_s(v) \/ Set_t(v) \/ Set_w_g(v)

(***************************************************************************)
(* Spec: every public operation on any sampled geometry                    *)
(***************************************************************************)
Init == Constructed(GeomVals, KappaVals)

Next ==
    \/ Assign(GeomVals)
    \/ Continue
    \/ L_k
    \/ \E f \in ArgsOver(ProbeVals) : L_l(f) \/ R_l(f) \/ C_l(f) \/ G_l(f)
    \/ \E f \in ArgsOfEachKind({MaxFreq}) :
          Z_0(f) \/ gamma(f) \/ alpha(f) \/ beta(f) \/ velocity(f)
    \/ \E f \in ArgsOfEachKind({MaxFreq}), l \in LVals :
          \/ L_eq_lambda4(f, l)
          \/ C_eq_lambda4(f, l)
          \/ R_eq_lambda4(f, l)
          \/ Q_lambda4(f, l)
    \/ \E l \in LVals : resonance_frequency_lambda4(l)

Spec == Init /\ [][Next]_vars

(***************************************************************************)
(* SpecDispatch: L_l and R_l on valid geometries, every sampled frequency  *)
(***************************************************************************)
InitDispatch == Constructed(ValidGeomVals, KappaVals)

NextDispatch ==
    \/ Assign(ValidGeomVals)
    \/ Continue
    \/ \E f \in ArgsOver(FreqVals) : L_l(f) \/ R_l(f)

SpecDispatch == InitDispatch /\ [][NextDispatch]_vars

(***************************************************************************)
(* SpecOmega: the inductance boundaries on positive geometries             *)
(***************************************************************************)
OmegaGeomVals == 1..MaxOmegaGeom
OmegaKappaVals == 1..MaxKappa

\* self._omega_L0(), self._omega_L1(), self._omega_L2()
_omega_L_call(st) ==
    Result(st, Return(<<3>>, <<_omega_L0(st), _omega_L1(st), _omega_L2(st)>>), {})

_omega_L == Call("_omega_L", NoArg, 0, _omega_L_call(self))

InitOmega ==
    /\ self \in {__init__(DefaultEpsilonR, DefaultTanDelta, k, w, 1, t, w_g) :
                    k \in OmegaKappaVals, w \in OmegaGeomVals,
                    t \in OmegaGeomVals, w_g \in OmegaGeomVals}
    /\ last = Idle

NextOmega == _omega_L \/ Continue

SpecOmega == InitOmega /\ [][NextOmega]_vars

(***************************************************************************)
(* SpecThreads: one thread runs C_l(f) statement by statement, as far as   *)
(* the reads of _pc0 (C_l -> _F_up -> _pc0 -> _k0), while a second thread  *)
(* assigns w, s or t.  Nothing in the class takes a lock.  A statement is  *)
(* one step: the second thread writes base attributes only, so a write     *)
(* between two reads of one statement is a write before or after it.  The  *)
(* other reads C_l makes between the refresh and _pc0 write nothing and    *)
(* are left out.  In this specification `last` is the frame of the call    *)
(* in progress: its position, what _pc0 and _k0 have read, and whether the *)
(* second thread has changed a base attribute during the refresh or after  *)
(* it.                                                                     *)
(***************************************************************************)
\* faulty variant (mutation test of TornOnlyByConcurrentWrite): C_l without
\* its call of _defined_short_parameter
C_l_steps_norefresh == <<"_pc0", "_k0_w", "_k0_w2", "_k0_s", "return">>

\* the positions of the call, in order: the three assignments of
\* _defined_short_parameter, the reads of _pc0 (_b and _a), the reads of
\* _k0 (w, w and s), the return
C_l_steps ==
    <<"_a", "_b", "_t_H", "_pc0", "_k0_w", "_k0_w2", "_k0_s", "return">>

RefreshSteps == {"_a", "_b", "_t_H"}

After(pc) ==
    LET i == CHOOSE j \in 1..Len(C_l_steps) : C_l_steps[j] = pc
    IN C_l_steps[i + 1]

Frame(pc, rd, during, after) ==
    [op |-> "C_l", pc |-> pc, rd |-> rd, during |-> during, after |-> after]

NoReads == [_a |-> <<0, 1>>, _b |-> <<0, 1>>, w |-> 0, w2 |-> 0, s |-> 0]

InCall == last # Idle

\* the thread is at statement pc and goes to the next one
Step(pc, st, rd) ==
    /\ InCall
    /\ last.pc = pc
    /\ self' = st
    /\ last' = Frame(After(pc), rd, last.during, last.after)

\* tl.C_l(f) is called
C_l_begin ==
    /\ last = Idle
    /\ last' = Frame(C_l_steps[1], NoReads, FALSE, FALSE)
    /\ UNCHANGED self

\* self._a = self.w/2.
Refresh_a == Step("_a", [self EXCEPT !._a = _defined_short_parameter(self)._a], last.rd)
\* self._b = self.w/2. + self.s
Refresh_b == Step("_b", [self EXCEPT !._b = _defined_short_parameter(self)._b], last.rd)
\* self._t_H = self.t/2.
Refresh_t_H ==
    Step("_t_H", [self EXCEPT !._t_H = _defined_short_parameter(self)._t_H], last.rd)
\* self._b/(2.*self._a* ..
Read_pc0 == Step("_pc0", self, [last.rd EXCEPT !._a = self._a, !._b = self._b])
\* self.w / (
Read_k0_w == Step("_k0_w", self, [last.rd EXCEPT !.w = self.w])
\* self.w + 2.*
Read_k0_w2 == Step("_k0_w2", self, [last.rd EXCEPT !.w2 = self.w])
\* self.s)
Read_k0_s == Step("_k0_s", self, [last.rd EXCEPT !.s = self.s])

\* C_l returns
C_l_return ==
    /\ InCall
    /\ last.pc = "return"
    /\ last' = Idle
    /\ UNCHANGED self

\* the second thread: tl.w = v, tl.s = v or tl.t = v, at any moment
Write(name, v) ==
    /\ self' = [self EXCEPT ![name] = v]
    /\ last' = IF InCall /\ self[name] # v
               THEN Frame(last.pc, last.rd,
                          last.during \/ last.pc \in RefreshSteps \ {C_l_steps[1]},
                          last.after \/ last.pc \notin RefreshSteps)
               ELSE last

InitThreads == Constructed(ValidGeomVals, KappaVals)

NextThreads ==
    \/ C_l_begin
    \/ Refresh_a
    \/ Refresh_b
    \/ Refresh_t_H
    \/ Read_pc0
    \/ Read_k0_w
    \/ Read_k0_w2
    \/ Read_k0_s
    \/ C_l_return
    \/ \E v \in ValidGeomVals : Write("w", v) \/ Write("s", v) \/ Write("t", v)

SpecThreads == InitThreads /\ [][NextThreads]_vars

(***************************************************************************)
(* Properties                                                              *)
(***************************************************************************)
\* the geometry invariant of the specification: w, s, t, w_g > 0
ValidGeometry(st) == st.w > 0 /\ st.s > 0 /\ st.t > 0 /\ st.w_g > 0

\* the array the last call made of its argument
LastArr == _variable_check(last.arg)
Returned == last.out.tag = "return"
RaisedWith(exc) == last.out = Raise(exc)

\* the regime of x among the boundaries bs, tested in order: the first i
\* with x <= bs[i], or Len(bs) + 1
RegimeBy(x, bs) ==
    LET I == {i \in 1..Len(bs) : RLe(x, bs[i])}
    IN IF I = {} THEN Len(bs) + 1
       ELSE CHOOSE i \in I : \A j \in I : i <= j

LForms == <<"L_l_1", "L_l_2", "L_l_3", "L_l_4">>
RcForms == <<"_Rc_1", "_Rc_2", "_Rc_3">>
RgForms == <<"_Rg_1", "_Rg_2", "_Rg_3">>
LBounds(st) == <<_omega_L0(st), _omega_L1(st), _omega_L2(st)>>
RcBounds(st) == <<_omega_c1(st), _omega_c2(st)>>
RgBounds(st) == <<_omega_g1(st), _omega_g2(st)>>

\* the inductance regime of the frequency f as the specification defines
\* it: by omega(f) = 2*pi*f
SpecRegimeL(st, f) == RegimeBy(_omega(f), LBounds(st))

(***************************************************************************)
(* C1                                                                      *)
(***************************************************************************)
\* C1: whatever the owner assigned before the call, each formula of a
\* public call that reads a derived attribute is given _a = w/2,
\* _b = w/2 + s and _t_H = t/2 of the current base attributes.
FreshDerived ==
    \A d \in last.seen :
        /\ REq(d._a, <<self.w, 2>>)
        /\ REq(d._b, <<self.w + 2 * self.s, 2>>)
        /\ REq(d._t_H, <<self.t, 2>>)

\* alpha, which has no refresh of its own, called while the derived
\* attributes were stale, and its formulas have read them
FreshDerivedWitness ==
    /\ last.op = "alpha"
    /\ Returned
    /\ last.seen # {}
    /\ last.entry # Derived(self)

(***************************************************************************)
(* C2                                                                      *)
(***************************************************************************)
\* C2: for f1 and f2 in different inductance regimes L_l([f1, f2]) returns
\* two elements, the element of L_l([f1]) and the element of L_l([f2]).
ElementwiseLl ==
    (/\ last.op = "L_l"
     /\ last.arg.kind = "list"
     /\ Len(last.arg.flat) = 2
     /\ SpecRegimeL(self, last.arg.flat[1]) # SpecRegimeL(self, last.arg.flat[2]))
    => LET r1 == L_l_call(self, List(<<last.arg.flat[1]>>)).out
           r2 == L_l_call(self, List(<<last.arg.flat[2]>>)).out
       IN /\ Returned
          /\ Len(last.out.flat) = 2
          /\ r1.tag = "return" /\ last.out.flat[1] = r1.flat[1]
          /\ r2.tag = "return" /\ last.out.flat[2] = r2.flat[1]

(***************************************************************************)
(* C3                                                                      *)
(***************************************************************************)
\* C3: for a query frequency f the formula evaluated by L_l, _Rc and _Rg is
\* the one of the regime that omega(f) = 2*pi*f lies in.
SelectsByOmega ==
    (last.op \in {"L_l", "R_l"} /\ last.arg.kind = "scalar")
    => LET om == _omega(last.arg.flat[1])
       IN /\ Returned
          /\ last.op = "L_l" =>
                last.out.flat[1].form = LForms[RegimeBy(om, LBounds(self))]
          /\ last.op = "R_l" =>
                /\ last.out.flat[1].sub[1].form = RcForms[RegimeBy(om, RcBounds(self))]
                /\ last.out.flat[1].sub[2].form = RgForms[RegimeBy(om, RgBounds(self))]

(***************************************************************************)
(* C4                                                                      *)
(***************************************************************************)
PerFrequencyOps ==
    {"L_l", "R_l", "C_l", "G_l", "Z_0", "gamma", "alpha", "beta", "velocity"}

\* C4: on a float, a list of n or an array of n frequencies each of L_l,
\* R_l, C_l, G_l, Z_0, gamma, alpha, beta, velocity returns one value per
\* frequency: 1 for a float, n for a list or an array.
OneValuePerFrequency ==
    (/\ last.op \in PerFrequencyOps
     /\ last.arg.kind \in {"scalar", "list", "ndarray"}
     /\ ValidGeometry(self))
    => /\ Returned
       /\ last.out.shape = <<Len(last.arg.flat)>>
       /\ Len(last.out.flat) = Len(last.arg.flat)

(***************************************************************************)
(* C5                                                                      *)
(***************************************************************************)
\* C5: a tuple of frequencies makes the operation fail with a type error;
\* it is never wrapped into one element.
TupleRejected ==
    (/\ last.op \in PerFrequencyOps
     /\ last.arg.kind = "tuple"
     /\ ValidGeometry(self))
    => RaisedWith("TypeError")

(***************************************************************************)
(* C6                                                                      *)
(***************************************************************************)
\* C6: on one geometry C_l returns the same sequence for any two frequency
\* inputs of equal length, and all the elements of one result are equal.
ClFrequencyIndependent ==
    (last.op = "C_l" /\ Returned)
    => /\ \A i, j \in 1..Len(last.out.flat) : last.out.flat[i] = last.out.flat[j]
       /\ \A g \in ArgsOver(ProbeVals) :
             ArrLen(_variable_check(g)) = ArrLen(LastArr)
             => C_l_call(self, g).out = last.out

\* C_l has returned two elements for the lowest and the highest frequency
ClFrequencyIndependentWitness ==
    /\ last.op = "C_l"
    /\ Returned
    /\ last.arg.kind = "list"
    /\ last.arg.flat = <<0, MaxFreq>>
    /\ Len(last.out.flat) = 2

(***************************************************************************)
(* C7                                                                      *)
(***************************************************************************)
\* C7 as stated: on an invalid geometry a computation on one frequency (or
\* L_k) never raises; it returns.
InvalidGeometryNeverRaises ==
    (/\ last.op \in {"L_k", "L_l", "R_l"}
     /\ last.arg.kind \in {"none", "scalar"}
     /\ ~ValidGeometry(self))
    => Returned

\* C7 amended: the constructor and the assignments accept a zero width,
\* but a later computation can raise: with plain Python numbers as
\* attributes L_l ends with ZeroDivisionError whenever t, w or w_g is
\* zero, R_l whenever t or w is zero, L_k whenever w is zero.
ZeroWidthRaises ==
    /\ (last.op = "L_l" /\ (self.t = 0 \/ self.w = 0 \/ self.w_g = 0))
       => RaisedWith("ZeroDivisionError")
    /\ (last.op = "R_l" /\ (self.t = 0 \/ self.w = 0))
       => RaisedWith("ZeroDivisionError")
    /\ (last.op = "L_k" /\ self.w = 0)
       => RaisedWith("ZeroDivisionError")

\* L_k called after the owner has set w to zero on an instance whose other
\* widths are positive
ZeroWidthRaisesWitness ==
    /\ last.op = "L_k"
    /\ self.w = 0 /\ self.s > 0 /\ self.t > 0 /\ self.w_g > 0
    /\ REq(self._a, <<1, 2>>)
    /\ RaisedWith("ZeroDivisionError")

(***************************************************************************)
(* C8                                                                      *)
(***************************************************************************)
\* the formulas that produced the elements of the last result of L_l, and
\* of the two contributions of R_l
LFormsUsed == {last.out.flat[i].form : i \in 1..Len(last.out.flat)}
RcFormsUsed == {last.out.flat[i].sub[1].form : i \in 1..Len(last.out.flat)}
RgFormsUsed == {last.out.flat[i].sub[2].form : i \in 1..Len(last.out.flat)}

\* C8 as stated: for every input the result of L_l, _Rc and _Rg comes from
\* the first or the last formula, never from a middle one.
MiddleBranchesDead ==
    /\ (last.op = "L_l" /\ Returned) => LFormsUsed \subseteq {"L_l_1", "L_l_4"}
    /\ (last.op = "R_l" /\ Returned)
       => /\ RcFormsUsed \subseteq {"_Rc_1", "_Rc_3"}
          /\ RgFormsUsed \subseteq {"_Rg_1", "_Rg_3"}

\* C8 amended: the middle branches are taken for single-element inputs;
\* an input of more than one element either ends with ValueError (some
\* element is at or below a boundary) or is evaluated, all of it, by the
\* last formula.
MultiElementLastOrValueError ==
    (last.op \in {"L_l", "R_l"} /\ ArrSize(LastArr) > 1)
    => \/ RaisedWith("ValueError")
       \/ /\ Returned
          /\ last.op = "L_l" => LFormsUsed = {"L_l_4"}
          /\ last.op = "R_l" => RcFormsUsed = {"_Rc_3"} /\ RgFormsUsed = {"_Rg_3"}

\* L_l of a list of two frequencies above every boundary has returned
MultiElementLastOrValueErrorWitness ==
    /\ last.op = "L_l"
    /\ last.arg.kind = "list"
    /\ Len(last.arg.flat) = 2
    /\ Returned
    /\ LFormsUsed = {"L_l_4"}

(***************************************************************************)
(* C9                                                                      *)
(***************************************************************************)
\* a new instance with the base attributes of st
SameBase(st) ==
    __init__(st.epsilon_r, st.tan_delta, st.kappa, st.w, st.s, st.t, st.w_g)

\* C9: a second L_l with the same frequencies, nothing assigned in between,
\* ends as the first did and leaves the instance as it is; and the result
\* is the one a new instance of the same base attributes gives, whatever
\* was called or assigned before.
LlRepeatable ==
    last.op = "L_l"
    => /\ L_l_call(self, last.arg).out = last.out
       /\ L_l_call(self, last.arg).st = self
       /\ L_l_call(SameBase(self), last.arg).out = last.out

\* L_l has returned a value, called while the derived attributes were stale
LlRepeatableWitness ==
    /\ last.op = "L_l"
    /\ Returned
    /\ Len(last.out.flat) = 1
    /\ last.entry # Derived(self)

(***************************************************************************)
(* C10                                                                     *)
(***************************************************************************)
\* omega_L0 < omega_L1 < omega_L2, of the boundaries the last call returned
BoundariesOrdered ==
    /\ RLt(last.out.flat[1], last.out.flat[2])
    /\ RLt(last.out.flat[2], last.out.flat[3])

\* C10 as stated: for every geometry with w, s, t, w_g > 0 and kappa > 0
\* the boundaries are strictly ordered.
BoundariesAlwaysOrdered ==
    (last.op = "_omega_L" /\ ValidGeometry(self) /\ self.kappa > 0)
    => BoundariesOrdered

\* C10 amended: for w, s, t, w_g, kappa > 0, omega_L0 < omega_L1 exactly
\* when w < w_g and omega_L1 < omega_L2 exactly when 2 t < 9 w.
BoundariesOrderedIff ==
    (last.op = "_omega_L" /\ ValidGeometry(self) /\ self.kappa > 0)
    => /\ RLt(last.out.flat[1], last.out.flat[2]) <=> self.w < self.w_g
       /\ RLt(last.out.flat[2], last.out.flat[3]) <=> 2 * self.t < 9 * self.w

\* the boundaries of a geometry with w < w_g and 2 t < 9 w, in order
BoundariesOrderedIffWitness ==
    /\ last.op = "_omega_L"
    /\ self.w < self.w_g
    /\ 2 * self.t < 9 * self.w
    /\ BoundariesOrdered

(***************************************************************************)
(* C11                                                                     *)
(***************************************************************************)
\* _pc0 and its _k0 have made all their reads
ReadsDone == InCall /\ last.pc = "return"

\* what they read is not one geometry: no w and s with both reads of w
\* equal to w, s equal to s, _a = w/2 and _b = w/2 + s
Torn ==
    ~(/\ last.rd.w = last.rd.w2
      /\ REq(last.rd._a, <<last.rd.w, 2>>)
      /\ REq(last.rd._b, <<last.rd.w + 2 * last.rd.s, 2>>))

\* C11: nothing re-computes the derived attributes between the refresh and
\* the reads of a formula, so the _a and _b that _pc0 reads are those the
\* refresh stored; what _pc0 and _k0 read is torn only if the second thread
\* changed a base attribute during the call (the refresh protects against
\* earlier writes, not against these).  That a write after the refresh
\* does tear it is TornAfterRefresh.
TornOnlyByConcurrentWrite ==
    /\ (InCall /\ last.pc \in {"_k0_w", "_k0_w2", "_k0_s", "return"})
       => last.rd._a = self._a /\ last.rd._b = self._b
    /\ (ReadsDone /\ Torn) => (last.during \/ last.after)

\* the second thread wrote only after the refresh, and _pc0 has combined
\* the _a and _b of the old w and s with a k0 of the new w
TornAfterRefresh ==
    /\ ReadsDone
    /\ ~last.during
    /\ last.after
    /\ last.rd.w = last.rd.w2
    /\ ~REq(last.rd._a, <<last.rd.w, 2>>)
    /\ ~REq(last.rd._b, <<last.rd.w + 2 * last.rd.s, 2>>)

(***************************************************************************)
(* C12                                                                     *)
(***************************************************************************)
\* a step of Spec that is a call of a public operation, from its first
\* statement to its return or its exception
IsCall == last = Idle /\ last' # Idle

\* C12: a public operation, whether it returns or raises, leaves every base
\* attribute as it was; of the instance it writes at most _a, _b and _t_H,
\* each either left as it was or set to w/2, w/2 + s, t/2.
CallsWriteDerivedOnly ==
    [][IsCall =>
          /\ DOMAIN self' = DOMAIN self
          /\ \A k \in BaseAttrs : self'[k] = self[k]
          /\ self'._a = self._a \/ REq(self'._a, <<self.w, 2>>)
          /\ self'._b = self._b \/ REq(self'._b, <<self.w + 2 * self.s, 2>>)
          /\ self'._t_H = self._t_H \/ REq(self'._t_H, <<self.t, 2>>)]_vars

\* Z_0 has raised, and its refresh had changed the derived attributes
CallsWriteDerivedOnlyWitness ==
    /\ last.op = "Z_0"
    /\ last.out.tag = "raise"
    /\ last.entry # Derived(self)

====
